---- MODULE Spec2Model ----
(***************************************************************************)
(* Model of org-chart-maker (src/main.py): the indentation parser, the     *)
(* four renderers and the command-line driver.                             *)
(*                                                                         *)
(* Text is modelled as a sequence of tokens.  A token is either one        *)
(* whitespace character (" ", "\t", "\n") or a whitespace-free word taken  *)
(* as an atom ("A", "Root", "reports", ...).  A line of the input file is  *)
(* its tokens followed by the newline that Python's file iteration keeps.  *)
(***************************************************************************)
EXTENDS Integers, Sequences, FiniteSets, TLC

\* ---------------------------------------------------------------- bounds
MaxLines == 3
MaxIndent == 2

\* ----------------------------------------------------------- input space
Whitespace == {" ", "\t", "\n"}

Words == {"Root", "A", "B"}

Formats == {"tree", "visio", "mermaid", "svg"}

None == "None"

RECURSIVE Pad(_)
Pad(n) == IF n = 0 THEN <<>> ELSE <<" ">> \o Pad(n - 1)

\* An entry at every indentation, and one entry followed by trailing blanks.
NonBlankLines ==
  {Pad(i) \o <<w>> \o <<"\n">> : i \in 0..MaxIndent, w \in Words}
    \cup {<<" ", "A", " ", "\t", "\n">>}

\* The empty line and a whitespace-only line.
BlankLines == {<<"\n">>, <<" ", "\t", "\n">>}

Lines == NonBlankLines \cup BlankLines

\* ------------------------------------------------------- string helpers
RECURSIVE lstrip(_)
lstrip(s) ==
  IF s # <<>> /\ Head(s) \in Whitespace THEN lstrip(Tail(s)) ELSE s

RECURSIVE rstrip(_)
rstrip(s) ==
  IF s # <<>> /\ s[Len(s)] \in Whitespace
    THEN rstrip(SubSeq(s, 1, Len(s) - 1))
    ELSE s

strip(s) == rstrip(lstrip(s))

count_leading_spaces(line) == Len(line) - Len(lstrip(line))

\* ------------------------------------------------------------ tree model
\* The heap of OrgNode objects is a sequence; a reference is an index, and
\* NoNode is Python's None.  Node 1 is the synthetic root.
NoNode == 0

RootId == 1

OrgNode(name) == [name |-> strip(name), children |-> <<>>, parent |-> NoNode]

add_child(heap, p, c) ==
  [heap EXCEPT ![p].children = Append(@, c), ![c].parent = p]

\* ---------------------------------------------------------------- parser
\* The loop with > for >=: an entry at the same indentation is not popped.
RECURSIVE PopStack(_, _)
PopStackStrict(stk, indent) ==
  IF stk # <<>> /\ stk[Len(stk)][2] > indent
    THEN PopStack(SubSeq(stk, 1, Len(stk) - 1), indent)
    ELSE stk

\* while stack and stack[-1][1] >= indent: stack.pop()
PopStack(stk, indent) ==
  IF stk # <<>> /\ stk[Len(stk)][2] >= indent
    THEN PopStack(SubSeq(stk, 1, Len(stk) - 1), indent)
    ELSE stk

\* State of parse_org_file before the first line is read.
ParseInit == [heap |-> <<OrgNode(<<"Root">>)>>, stack |-> <<<<RootId, -1>>>>]

\* The iteration skipping only the empty line, not the whitespace-only one.
ParseLineSkipEmpty(ps, line) ==
  IF line = <<"\n">>
    THEN ps
    ELSE
      LET indent == count_leading_spaces(line)
          node   == Len(ps.heap) + 1
          heap1  == Append(ps.heap, OrgNode(strip(line)))
          stk    == PopStack(ps.stack, indent)
          parent == stk[Len(stk)][1]
      IN [heap |-> add_child(heap1, parent, node),
          stack |-> Append(stk, <<node, indent>>)]

\* The iteration without stack.append((node, indent)).
ParseLineNoPush(ps, line) ==
  IF strip(line) = <<>>
    THEN ps
    ELSE
      LET indent == count_leading_spaces(line)
          node   == Len(ps.heap) + 1
          heap1  == Append(ps.heap, OrgNode(strip(line)))
          stk    == PopStack(ps.stack, indent)
          parent == stk[Len(stk)][1]
      IN [heap |-> add_child(heap1, parent, node),
          stack |-> stk]

\* One iteration of "for line in f".
ParseLine(ps, line) ==
  IF strip(line) = <<>>
    THEN ps
    ELSE
      LET indent == count_leading_spaces(line)
          node   == Len(ps.heap) + 1
          heap1  == Append(ps.heap, OrgNode(strip(line)))
          stk    == PopStack(ps.stack, indent)
          parent == stk[Len(stk)][1]
      IN [heap |-> add_child(heap1, parent, node),
          stack |-> Append(stk, <<node, indent>>)]

RECURSIVE ParseLines(_, _)
ParseLines(ps, lines) ==
  IF lines = <<>> THEN ps ELSE ParseLines(ParseLine(ps, Head(lines)), Tail(lines))

\* parse_org_file on an existing file with the given lines; the heap whose
\* node RootId is the returned root.
parse_org_file(lines) == ParseLines(ParseInit, lines).heap

\* ------------------------------------------------------------- renderers
\* A renderer's output is the sequence of lines it prints (print's newline
\* left out).

\* "  " * level
RECURSIVE Indent(_)
Indent(level) == IF level = 0 THEN <<>> ELSE <<" ", " ">> \o Indent(level - 1)

RECURSIVE print_org_chart(_, _, _)
RECURSIVE ChartOfChildren(_, _, _)
print_org_chart(h, node, level) ==
  <<Indent(level) \o <<"-", " ">> \o h[node].name>>
    \o ChartOfChildren(h, h[node].children, level)

ChartOfChildren(h, kids, level) ==
  IF kids = <<>>
    THEN <<>>
    ELSE print_org_chart(h, Head(kids), level + 1)
           \o ChartOfChildren(h, Tail(kids), level)

ReportsTo(x, y) == x \o <<" ", "reports", " ", "to", " ">> \o y

RECURSIVE print_reporting_relationships(_, _)
RECURSIVE RelationshipsOfChildren(_, _)
print_reporting_relationships(h, node) ==
  (IF h[node].parent # NoNode /\ h[h[node].parent].name # <<"Root">>
     THEN <<ReportsTo(h[node].name, h[h[node].parent].name)>>
     ELSE <<>>)
    \o RelationshipsOfChildren(h, h[node].children)

RelationshipsOfChildren(h, kids) ==
  IF kids = <<>>
    THEN <<>>
    ELSE print_reporting_relationships(h, Head(kids))
           \o RelationshipsOfChildren(h, Tail(kids))

\* str(k) for a natural number k.
Digit(d) == <<"0", "1", "2", "3", "4", "5", "6", "7", "8", "9">>[d + 1]

RECURSIVE Decimal(_)
Decimal(k) == IF k < 10 THEN <<Digit(k)>> ELSE Decimal(k \div 10) \o <<Digit(k % 10)>>

\* parent_id=None
NoId == <<>>

MermaidId(k) == <<"n">> \o Decimal(k)

MermaidDecl(id, name) == <<"\t">> \o id \o <<"[", "\"">> \o name \o <<"\"", "]">>

MermaidEdge(from, to) == <<"\t">> \o from \o <<" ", "-->", " ">> \o to

\* The recursion handing its own parent_id, not current_id, to the children.
RECURSIVE print_mermaid_nodes(_, _, _, _)
RECURSIVE MermaidOfChildren(_, _, _, _)
print_mermaid_nodes_parent(h, node, parent_id, st) ==
  LET current_id == MermaidId(st.counter)
      decl == <<MermaidDecl(current_id, h[node].name)>>
      edge == IF parent_id # NoId THEN <<MermaidEdge(parent_id, current_id)>> ELSE <<>>
  IN MermaidOfChildren(h, h[node].children, parent_id,
                       [out |-> st.out \o decl \o edge, counter |-> st.counter + 1])

\* _print_mermaid_nodes threads the one-element counter list through the
\* recursion; st is [out, counter].
print_mermaid_nodes(h, node, parent_id, st) ==
  LET current_id == MermaidId(st.counter)
      decl == <<MermaidDecl(current_id, h[node].name)>>
      edge == IF parent_id # NoId THEN <<MermaidEdge(parent_id, current_id)>> ELSE <<>>
  IN MermaidOfChildren(h, h[node].children, current_id,
                       [out |-> st.out \o decl \o edge, counter |-> st.counter + 1])

MermaidOfChildren(h, kids, current_id, st) ==
  IF kids = <<>>
    THEN st
    ELSE MermaidOfChildren(h, Tail(kids), current_id,
                           print_mermaid_nodes(h, Head(kids), current_id, st))

\* The Markdown fence of three backquotes, a character TLA+ strings lack.
Fence == "~~~"

print_mermaid_flowchart(h, node) ==
  IF h[node].name = <<"Root">> /\ h[node].children # <<>>
    THEN <<<<Fence, "mermaid">>, <<"flowchart", " ", "TB">>>>
           \o print_mermaid_nodes(h, h[node].children[1], NoId,
                                  [out |-> <<>>, counter |-> 0]).out
           \o <<<<Fence>>>>
    ELSE <<>>

\* node_ids is a dict in insertion order: a sequence of <<name, id>>.
HasKey(ids, name) == \E i \in 1..Len(ids) : ids[i][1] = name

GetId(ids, name) == ids[CHOOSE i \in 1..Len(ids) : ids[i][1] = name][2]

SvgId(k) == <<"node_">> \o Decimal(k)

\* if name not in node_ids: node_ids[name] = f"node_{len(node_ids)}"
EnsureId(ids, name) ==
  IF HasKey(ids, name) THEN ids ELSE Append(ids, <<name, SvgId(Len(ids))>>)

\* add_nodes of generate_svg_chart; st is [dot, ids], dot the Digraph body
\* (node statements <<id, label>> and edge statements <<tail, head>>).
RECURSIVE add_nodes(_, _, _)
RECURSIVE AddRootChildren(_, _, _)
RECURSIVE AddEdgesToChildren(_, _, _, _)
add_nodes(h, node, st) ==
  IF h[node].name = <<"Root">>
    THEN AddRootChildren(h, h[node].children, st)
    ELSE
      LET ids1 == EnsureId(st.ids, h[node].name)
          current_id == GetId(ids1, h[node].name)
          dot1 == [st.dot EXCEPT !.nodes = Append(@, <<current_id, h[node].name>>)]
      IN AddEdgesToChildren(h, h[node].children, current_id, [dot |-> dot1, ids |-> ids1])

AddRootChildren(h, kids, st) ==
  IF kids = <<>>
    THEN st
    ELSE AddRootChildren(h, Tail(kids), add_nodes(h, Head(kids), st))

AddEdgesToChildren(h, kids, current_id, st) ==
  IF kids = <<>>
    THEN st
    ELSE
      LET child == Head(kids)
          ids1 == EnsureId(st.ids, h[child].name)
          child_id == GetId(ids1, h[child].name)
          dot1 == [st.dot EXCEPT !.edges = Append(@, <<current_id, child_id>>)]
      IN AddEdgesToChildren(h, Tail(kids), current_id,
                            add_nodes(h, child, [dot |-> dot1, ids |-> ids1]))

EmptyDot == [nodes |-> <<>>, edges |-> <<>>]

\* The graph generate_svg_chart renders, and the path it returns.
generate_svg_chart(h, node) == add_nodes(h, node, [dot |-> EmptyDot, ids |-> <<>>]).dot

SvgFile == <<"org_chart", ".svg">>

\* ------------------------------------------------------------- variables
VARIABLES
  pc,        \* position of main(): "parse", "read", "dispatch", a renderer, "except", "done", "uncaught"
  format,    \* args.format
  exists,    \* whether args.filename names an existing file
  file,      \* the lines of the file read so far
  heap,      \* the OrgNode objects
  stack,     \* parse_org_file's stack of (node, indent)
  stdout,    \* lines printed to standard output
  stderr,    \* lines printed to the diagnostic stream
  dot,       \* the graphviz.Digraph built by generate_svg_chart
  exc,       \* the exception raised, if any
  ran        \* the renderers that returned, in order

vars == <<pc, format, exists, file, heap, stack, stdout, stderr, dot, exc, ran>>

Init ==
  /\ pc = "parse"
  /\ format \in Formats \cup {None}
  /\ exists \in BOOLEAN
  /\ file = <<>>
  /\ heap = <<>>
  /\ stack = <<>>
  /\ stdout = <<>>
  /\ stderr = <<>>
  /\ dot = EmptyDot
  /\ exc = None
  /\ ran = <<>>

\* parse_org_file up to the open(): the root and the stack are created, then
\* open() raises FileNotFoundError for a missing path.
OpenFile ==
  /\ pc = "parse"
  /\ heap' = ParseInit.heap
  /\ stack' = ParseInit.stack
  /\ IF exists
       THEN pc' = "read" /\ exc' = exc
       ELSE pc' = "except" /\ exc' = "FileNotFoundError"
  /\ UNCHANGED <<format, exists, file, stdout, stderr, dot, ran>>

\* One iteration of the loop over the file's lines; any line may come next.
ReadLine ==
  /\ pc = "read"
  /\ Len(file) < MaxLines
  /\ \E line \in Lines :
       LET ps == ParseLine([heap |-> heap, stack |-> stack], line)
       IN /\ file' = Append(file, line)
          /\ heap' = ps.heap
          /\ stack' = ps.stack
  /\ UNCHANGED <<pc, format, exists, stdout, stderr, dot, exc, ran>>

\* End of file: parse_org_file returns root.
EndOfFile ==
  /\ pc = "read"
  /\ pc' = "dispatch"
  /\ UNCHANGED <<format, exists, file, heap, stack, stdout, stderr, dot, exc, ran>>

\* ---------------------------------------------------------------- driver
HeaderChart == <<"Organization", " ", "Chart">>

HeaderRelationships ==
  <<"\n", "Reporting", " ", "Relationships", " ", "(for", " ", "Visio", " ", "import)">>

HeaderMermaid == <<"\n", "Mermaid", " ", "Flowchart">>

HeaderSvg == <<"\n", "Generating", " ", "SVG...">>

SvgGenerated == <<"SVG", " ", "file", " ", "generated:", " ">> \o SvgFile

NotFoundMessage ==
  <<<<"Error:", " ", "<filename>", " ", "not", " ", "found.", " ", "Please", " ", "create",
      " ", "a", " ", "text", " ", "file", " ", "with", " ", "your", " ", "organization",
      " ", "structure.">>,
    <<"Each", " ", "line", " ", "should", " ", "represent", " ", "a", " ", "resource,",
      " ", "with", " ", "indentation", " ", "showing", " ", "reporting", " ",
      "relationships.">>>>

Traceback == <<"Traceback", " ", "(most", " ", "recent", " ", "call", " ", "last):">>

\* root.children[0] raises IndexError on a root without children; main only
\* catches FileNotFoundError, so the interpreter reports the error on the
\* diagnostic stream and the process ends.
HasFirstChild == heap[RootId].children # <<>>

FirstChild == heap[RootId].children[1]

RaiseIndexError ==
  /\ pc' = "uncaught"
  /\ exc' = "IndexError"
  /\ stderr' = Append(stderr, Traceback)
  /\ UNCHANGED <<stdout, dot, ran>>

\* if args.format is None: ... else: ...
Dispatch ==
  /\ pc = "dispatch"
  /\ IF format = None
       THEN pc' = "tree" /\ stderr' = Append(stderr, HeaderChart)
       ELSE pc' = format /\ stderr' = stderr
  /\ UNCHANGED <<format, exists, file, heap, stack, stdout, dot, exc, ran>>

RunTree ==
  /\ pc = "tree"
  /\ IF HasFirstChild
       THEN /\ stdout' = stdout \o print_org_chart(heap, FirstChild, 0)
            /\ ran' = Append(ran, "tree")
            /\ IF format = None
                 THEN pc' = "visio" /\ stderr' = Append(stderr, HeaderRelationships)
                 ELSE pc' = "done" /\ stderr' = stderr
            /\ UNCHANGED <<dot, exc>>
       ELSE RaiseIndexError
  /\ UNCHANGED <<format, exists, file, heap, stack>>

RunVisio ==
  /\ pc = "visio"
  /\ IF HasFirstChild
       THEN /\ stdout' = stdout \o print_reporting_relationships(heap, FirstChild)
            /\ ran' = Append(ran, "visio")
            /\ IF format = None
                 THEN pc' = "mermaid" /\ stderr' = Append(stderr, HeaderMermaid)
                 ELSE pc' = "done" /\ stderr' = stderr
            /\ UNCHANGED <<dot, exc>>
       ELSE RaiseIndexError
  /\ UNCHANGED <<format, exists, file, heap, stack>>

\* The Mermaid call made on root.children[0] like the other three.
RunMermaidOnFirstChild ==
  /\ pc = "mermaid"
  /\ IF HasFirstChild
       THEN /\ stdout' = stdout \o print_mermaid_flowchart(heap, RootId)
            /\ ran' = Append(ran, "mermaid")
            /\ IF format = None
                 THEN pc' = "svg" /\ stderr' = Append(stderr, HeaderSvg)
                 ELSE pc' = "done" /\ stderr' = stderr
            /\ UNCHANGED <<dot, exc>>
       ELSE RaiseIndexError
  /\ UNCHANGED <<format, exists, file, heap, stack>>

RunMermaid ==
  /\ pc = "mermaid"
  /\ stdout' = stdout \o print_mermaid_flowchart(heap, RootId)
  /\ ran' = Append(ran, "mermaid")
  /\ IF format = None
       THEN pc' = "svg" /\ stderr' = Append(stderr, HeaderSvg)
       ELSE pc' = "done" /\ stderr' = stderr
  /\ UNCHANGED <<format, exists, file, heap, stack, dot, exc>>

\* dot.render is taken to succeed: the layout engine is outside the program.
RunSvg ==
  /\ pc = "svg"
  /\ IF HasFirstChild
       THEN /\ dot' = generate_svg_chart(heap, FirstChild)
            /\ ran' = Append(ran, "svg")
            /\ IF format = None
                 THEN stderr' = Append(stderr, SvgGenerated) /\ stdout' = stdout
                 ELSE stdout' = Append(stdout, SvgGenerated) /\ stderr' = stderr
            /\ pc' = "done"
            /\ exc' = exc
       ELSE RaiseIndexError
  /\ UNCHANGED <<format, exists, file, heap, stack>>

\* The handler printing with file=sys.stderr.
ExceptFileNotFoundToStderr ==
  /\ pc = "except"
  /\ exc = "FileNotFoundError"
  /\ stderr' = stderr \o NotFoundMessage
  /\ exc' = None
  /\ pc' = "done"
  /\ UNCHANGED <<format, exists, file, heap, stack, stdout, dot, ran>>

\* except FileNotFoundError: two lines on standard output, then main returns.
ExceptFileNotFound ==
  /\ pc = "except"
  /\ exc = "FileNotFoundError"
  /\ stdout' = stdout \o NotFoundMessage
  /\ exc' = None
  /\ pc' = "done"
  /\ UNCHANGED <<format, exists, file, heap, stack, stderr, dot, ran>>

\* ------------------------------------------------- the input, read directly
\* What the claims say about the input is computed from the lines themselves,
\* not from the parser's stack.
IsBlank(line) == \A i \in 1..Len(line) : line[i] \in Whitespace

LeadingCount(line) ==
  Cardinality({i \in 1..Len(line) : \A j \in 1..i : line[j] \in Whitespace})

NonBlank(f) == {i \in 1..Len(f) : ~IsBlank(f[i])}

\* The node made for line i: the root is node 1 and every non-blank line makes
\* the next one.
NodeOfLine(f, i) == 1 + Cardinality({j \in NonBlank(f) : j <= i})

LineOfNode(f, n) == CHOOSE i \in NonBlank(f) : NodeOfLine(f, i) = n

SetMax(S) == CHOOSE x \in S : \A y \in S : y <= x

\* The node of the nearest preceding non-blank line with a strictly smaller
\* leading-whitespace count, or the root.
NearestShallower(f, i) ==
  LET before == {j \in NonBlank(f) : j < i /\ LeadingCount(f[j]) < LeadingCount(f[i])}
  IN IF before = {} THEN RootId ELSE NodeOfLine(f, SetMax(before))

Parsing == pc \in {"read", "dispatch"}

Parsed == exists /\ pc \notin {"parse", "read", "except"}

Terminated == pc \in {"done", "uncaught"}

\* C1: every non-blank line's node has as parent the node of the nearest
\* preceding non-blank line with a strictly smaller leading-whitespace count (the
\* root when there is none), and it was appended to that parent's children: it
\* is among them, and whatever follows it there was made later.
C1_ParentIsNearestShallower ==
  Parsing =>
    \A i \in NonBlank(file) :
      LET n == NodeOfLine(file, i)
          p == NearestShallower(file, i)
          kids == heap[p].children
      IN /\ n \in 2..Len(heap)
         /\ heap[n].parent = p
         /\ \E k \in 1..Len(kids) :
              /\ kids[k] = n
              /\ \A m \in 1..Len(kids) : (m < k => kids[m] < n) /\ (m > k => kids[m] > n)

\* Three entries with counts 0, 2, 1: the third goes back to the first.
C1_Witness ==
  /\ pc = "dispatch"
  /\ Len(file) = 3
  /\ NonBlank(file) = {1, 2, 3}
  /\ LeadingCount(file[1]) = 0
  /\ LeadingCount(file[2]) = 2
  /\ LeadingCount(file[3]) = 1
  /\ heap[4].parent = 2
  /\ heap[2].children = <<3, 4>>

\* The nodes below n, counted once per path, and as a set.
RECURSIVE SizeBelow(_, _)
RECURSIVE SizeOfAll(_, _)
SizeBelow(h, n) == SizeOfAll(h, h[n].children)

SizeOfAll(h, kids) ==
  IF kids = <<>> THEN 0 ELSE 1 + SizeBelow(h, Head(kids)) + SizeOfAll(h, Tail(kids))

RECURSIVE Below(_, _)
RECURSIVE BelowAll(_, _)
Below(h, n) == BelowAll(h, h[n].children)

BelowAll(h, kids) ==
  IF kids = <<>> THEN {} ELSE {Head(kids)} \cup Below(h, Head(kids)) \cup BelowAll(h, Tail(kids))

\* C4: the tree parse_org_file returns has exactly as many nodes below the root
\* as the file has non-blank lines, none of them reached twice.
C4_OneNodePerNonBlankLine ==
  pc = "dispatch" =>
    LET N == Cardinality(NonBlank(file))
    IN /\ SizeBelow(heap, RootId) = N
       /\ Cardinality(Below(heap, RootId)) = N
       /\ Len(heap) = N + 1

\* Two entries around a whitespace-only line.
C4_Witness ==
  /\ pc = "dispatch"
  /\ Len(file) = 3
  /\ NonBlank(file) = {1, 3}
  /\ file[2] # <<"\n">>
  /\ SizeBelow(heap, RootId) = 2

IndentOfNode(n) == LeadingCount(file[LineOfNode(file, n)])

Siblings(a, b) == a # b /\ heap[a].parent = heap[b].parent

\* C10 as stated: two children of the same parent come from lines with the same
\* leading-whitespace count.
C10_SiblingsSameIndent ==
  Parsing =>
    \A a, b \in 2..Len(heap) : Siblings(a, b) => IndentOfNode(a) = IndentOfNode(b)

\* C10 amended: of two children of the same parent, the later one's line has a
\* leading-whitespace count less than or equal to the earlier one's.
C10_SiblingsNonIncreasing ==
  Parsing =>
    \A a, b \in 2..Len(heap) :
      (Siblings(a, b) /\ a < b) => IndentOfNode(b) <= IndentOfNode(a)

\* A parent with two children of different counts.
C10_Witness ==
  /\ pc = "read"
  /\ \E a, b \in 2..Len(heap) :
       /\ Siblings(a, b)
       /\ a < b
       /\ heap[a].parent # RootId
       /\ IndentOfNode(b) < IndentOfNode(a)

\* --------------------------------------------------- the tree, read directly
RECURSIVE PreOrder(_, _)
RECURSIVE PreOrderAll(_, _)
PreOrder(h, n) == <<n>> \o PreOrderAll(h, h[n].children)

PreOrderAll(h, kids) ==
  IF kids = <<>> THEN <<>> ELSE PreOrder(h, Head(kids)) \o PreOrderAll(h, Tail(kids))

PositionIn(seq, x) == CHOOSE k \in 1..Len(seq) : seq[k] = x

Range(seq) == {seq[k] : k \in 1..Len(seq)}

\* What the Mermaid block must hold for the nodes in pre-order `order`: the
\* k-th node is n(k-1), declared once, and every node but the first has one
\* edge from the identifier of its parent.
RECURSIVE ExpectedMermaid(_, _, _)
ExpectedMermaid(h, order, k) ==
  IF k > Len(order)
    THEN <<>>
    ELSE
      LET id == <<"n">> \o Decimal(k - 1)
          parentId == <<"n">> \o Decimal(PositionIn(order, h[order[k]].parent) - 1)
      IN <<MermaidDecl(id, h[order[k]].name)>>
           \o (IF k > 1 THEN <<MermaidEdge(parentId, id)>> ELSE <<>>)
           \o ExpectedMermaid(h, order, k + 1)

\* C5: with at least one top-level entry, the Mermaid block names the nodes
\* reached from the root's first child n0, n1, ... in pre-order, declares each
\* once, and gives every node but the first exactly one edge, from the
\* identifier of its parent.
\* Checked where the block is the last thing on standard output: after
\* -f mermaid, and in the default mode right after the Mermaid renderer.
MermaidJustPrinted ==
  /\ exists
  /\ \/ format = "mermaid" /\ pc = "done"
     \/ format = None /\ pc = "svg"
  /\ HasFirstChild

C5_MermaidIdsInPreOrder ==
  MermaidJustPrinted =>
    LET order == PreOrder(heap, FirstChild)
        size == 3 + (2 * Len(order) - 1)
        block == SubSeq(stdout, Len(stdout) - size + 1, Len(stdout))
    IN /\ Len(stdout) >= size
       /\ format = "mermaid" => Len(stdout) = size
       /\ block[1] = <<Fence, "mermaid">>
       /\ block[size] = <<Fence>>
       /\ SubSeq(block, 3, size - 1) = ExpectedMermaid(heap, order, 1)

\* The first entry has two children: n2 hangs from n0, not from n1.
C5_Witness ==
  /\ format = "mermaid"
  /\ pc = "done"
  /\ Len(heap) = 4
  /\ heap[RootId].children = <<2>>
  /\ heap[2].children = <<3, 4>>
  /\ Len(stdout) = 8

\* C8: when the path does not exist, whatever the format, no renderer runs,
\* nothing reaches the diagnostic stream, no exception escapes, and on return
\* standard output holds the two remediation lines and nothing else.
C8_NotFoundTwoLines ==
  ~exists =>
    /\ pc \in {"parse", "except", "done"}
    /\ ran = <<>>
    /\ stderr = <<>>
    /\ dot = EmptyDot
    /\ pc # "done" => stdout = <<>>
    /\ pc = "done" => (Len(stdout) = 2 /\ stdout = NotFoundMessage /\ exc = None)

C8_Witness ==
  /\ ~exists
  /\ pc = "done"
  /\ format = "tree"
  /\ Len(stdout) = 2

AllBlank == \A i \in 1..Len(file) : IsBlank(file[i])

FailedOnFirstChild == pc = "uncaught" /\ exc = "IndexError"

C2_RelationshipsAreTreeEdges ==
  (format = "visio" /\ exists /\ Terminated) =>
    Range(stdout) =
      {ReportsTo(heap[n].name, heap[heap[n].parent].name) :
         n \in {m \in 2..Len(heap) : heap[m].parent # RootId}}

\* The listing, read as a file again.
AsFile(out) == [i \in 1..Len(out) |-> out[i] \o <<"\n">>]

\* The shape of the subtree at n: the shapes of its children, in order.
RECURSIVE Shape(_, _)
RECURSIVE ShapeAll(_, _)
Shape(h, n) == ShapeAll(h, h[n].children)

ShapeAll(h, kids) ==
  IF kids = <<>> THEN <<>> ELSE <<Shape(h, Head(kids))>> \o ShapeAll(h, Tail(kids))

\* C3: with format tree, parsing the printed listing gives a tree of the same
\* size and shape as the tree parsed from the input.
C3_ListingRoundTrip ==
  (format = "tree" /\ exists /\ pc = "done") =>
    LET again == parse_org_file(AsFile(stdout))
    IN /\ Len(again) = Len(heap)
       /\ Shape(again, RootId) = Shape(heap, RootId)

\* The vertices of the graph: those of the node statements and the ends of the
\* edge statements.
Vertices(g) ==
  {g.nodes[k][1] : k \in 1..Len(g.nodes)}
    \cup {g.edges[k][1] : k \in 1..Len(g.edges)}
    \cup {g.edges[k][2] : k \in 1..Len(g.edges)}

VerticesNamed(g, name) == {g.nodes[k][1] : k \in {j \in 1..Len(g.nodes) : g.nodes[j][2] = name}}

\* C6: the graph has one vertex per distinct name among the rendered nodes,
\* different names on different vertices, and an edge from the parent's vertex
\* to the child's for every parent and child rendered.
C6_VertexPerNameEdgePerPair ==
  (format = "svg" /\ exists /\ pc = "done") =>
    LET rendered == {FirstChild} \cup Below(heap, FirstChild)
        names == {heap[n].name : n \in rendered}
    IN /\ Cardinality(Vertices(dot)) = Cardinality(names)
       /\ \A nm \in names : Cardinality(VerticesNamed(dot, nm)) = 1
       /\ \A a, b \in names : a # b => VerticesNamed(dot, a) # VerticesNamed(dot, b)
       /\ \A c \in rendered \ {FirstChild} :
            \E k \in 1..Len(dot.edges) :
              /\ {dot.edges[k][1]} = VerticesNamed(dot, heap[heap[c].parent].name)
              /\ {dot.edges[k][2]} = VerticesNamed(dot, heap[c].name)

\* C7: after a successful parse main ends having run either all four renderers
\* in order, with the headers and the confirmation on the diagnostic stream,
\* or only the one the flag names, with nothing on the diagnostic stream.
C7_AllFourOrTheOne ==
  (exists /\ Terminated) =>
    IF format = None
      THEN /\ ran = <<"tree", "visio", "mermaid", "svg">>
           /\ stderr = <<HeaderChart, HeaderRelationships, HeaderMermaid, HeaderSvg, SvgGenerated>>
      ELSE /\ ran = <<format>>
           /\ stderr = <<>>

Next ==
  \/ OpenFile
  \/ ReadLine
  \/ EndOfFile
  \/ Dispatch
  \/ RunTree
  \/ RunVisio
  \/ RunMermaid
  \/ RunSvg
  \/ ExceptFileNotFound

Spec == Init /\ [][Next]_vars
====
